---- MODULE Spec2Model ----
(***************************************************************************)
(* Model of scripts/pywal-integration/waybar-color-intelligence.py: the    *)
(* palette analyzer (accent / complement selection, WCAG contrast ratio,   *)
(* text colour choice); of config/waybar/setup_cava.py: run_setup, its six *)
(* steps and cleanup_on_failure; and of the hardware record that           *)
(* scripts/phase_2_hardware.py saves and scripts/phase_3_packages.py       *)
(* loads.  Each program has its own specifications over the shared         *)
(* variables; the variables of the programs that are not running keep      *)
(* their initial values.                                                   *)
(*                                                                         *)
(* Numbers.  Python floats are modelled by exact rationals <<n, d>> with   *)
(* d > 0, kept in lowest terms; two rationals are compared by continued    *)
(* fractions (FracCmp), without cross-multiplying.  The one irrational     *)
(* function, gamma_correct (x ** 2.4), is tabulated over its whole domain  *)
(* (the 256 channel values) in fixed point, GammaScale units to 1.         *)
(* Functions of a single colour are evaluated once per input colour and    *)
(* looked up afterwards (the ...Table definitions).                        *)
(*                                                                         *)
(* Strings.  A hex colour "#rrggbb" is the sequence of its seven           *)
(* one-character strings, parsed digit by digit as int(s, 16) does.        *)
(***************************************************************************)
EXTENDS Integers, Sequences, FiniteSets, TLC

VARIABLES colors, op, args, result, earlier,
          self, fs, packages, run, before

\* the palette analyzer's state: the palette, the last call and its result,
\* and an earlier call kept for comparison
analyzerVars == <<colors, op, args, result, earlier>>

\* the state of one run of setup_cava.py: the CavaWaybarSetup object, the
\* files, the installed packages, the position of run_setup, and the files and
\* packages as they were when the run started
setupVars == <<self, fs, packages, run, before>>

vars == <<colors, op, args, result, earlier, self, fs, packages, run, before>>

(***************************************************************************)
(* Rational arithmetic                                                     *)
(***************************************************************************)
Abs(x) == IF x < 0 THEN -x ELSE x

RECURSIVE Gcd(_, _)
Gcd(a, b) == IF b = 0 THEN a ELSE Gcd(b, a % b)

\* n/d in lowest terms with a positive denominator
Rat(n, d) ==
    LET s == IF d < 0 THEN -1 ELSE 1
        g == Gcd(Abs(n), Abs(d))
    IN  <<(s * n) \div g, (s * d) \div g>>

RInt(k) == <<k, 1>>

\* sign of a/b - c/d for b, d > 0, by continued-fraction expansion
RECURSIVE FracCmp(_, _, _, _)
FracCmp(a, b, c, d) ==
    LET q1 == a \div b
        q2 == c \div d
        r1 == a % b
        r2 == c % d
    IN  IF q1 < q2 THEN -1
        ELSE IF q1 > q2 THEN 1
        ELSE IF r1 = 0 /\ r2 = 0 THEN 0
        ELSE IF r1 = 0 THEN -1
        ELSE IF r2 = 0 THEN 1
        ELSE FracCmp(d, r2, b, r1)

RCmp(x, y) == FracCmp(x[1], x[2], y[1], y[2])
RLt(x, y) == RCmp(x, y) < 0
RLe(x, y) == RCmp(x, y) <= 0
RGt(x, y) == RCmp(x, y) > 0
REq(x, y) == RCmp(x, y) = 0

RAdd(x, y) ==
    LET g == Gcd(x[2], y[2])
    IN  Rat(x[1] * (y[2] \div g) + y[1] * (x[2] \div g), x[2] * (y[2] \div g))

RNeg(x) == <<-x[1], x[2]>>
RSub(x, y) == RAdd(x, RNeg(y))
RAbs(x) == <<Abs(x[1]), x[2]>>

RMul(x, y) ==
    LET g1 == Gcd(Abs(x[1]), y[2])
        g2 == Gcd(Abs(y[1]), x[2])
    IN  Rat((x[1] \div g1) * (y[1] \div g2), (x[2] \div g2) * (y[2] \div g1))

\* x / y for y # 0
RDiv(x, y) == RMul(x, Rat(y[2], y[1]))

RMax(x, y) == IF RLt(x, y) THEN y ELSE x
RMin(x, y) == IF RLt(y, x) THEN y ELSE x

\* Python's x % 1.0 for floats: the result lies in [0, 1)
RMod1(x) == <<x[1] % x[2], x[2]>>

(***************************************************************************)
(* Hex colour strings                                                      *)
(***************************************************************************)
HexDigits == <<"0", "1", "2", "3", "4", "5", "6", "7",
               "8", "9", "a", "b", "c", "d", "e", "f">>

\* int(ch, 16) for one digit
HexVal(ch) == (CHOOSE i \in 1..16 : HexDigits[i] = ch) - 1

\* int(s, 16) for a two-digit string
int16(s) == 16 * HexVal(s[1]) + HexVal(s[2])

\* '#%02x%02x%02x' % (r, g, b): how the palette file writes a colour
HexOf(r, g, b) ==
    <<"#", HexDigits[(r \div 16) + 1], HexDigits[(r % 16) + 1],
           HexDigits[(g \div 16) + 1], HexDigits[(g % 16) + 1],
           HexDigits[(b \div 16) + 1], HexDigits[(b % 16) + 1]>>

\* str.lstrip('#')
RECURSIVE lstrip(_)
lstrip(s) == IF Len(s) > 0 /\ s[1] = "#" THEN lstrip(Tail(s)) ELSE s

(***************************************************************************)
(* Inputs: the palettes and colours the functions are applied to           *)
(***************************************************************************)
\* at most this many keys of a palette differ from its base colour
MaxOverrides == 2

\* at most this many keys of a sparse palette are present
MaxPresent == 2

\* at most this many keys of a red-and-cyan palette, the accent and the cyan
\* aside, differ from its base colour
MaxExtra == 1

\* number of channel steps of the colour grid contrast ratios are taken over
GridSteps == 4

\* colours a palette is drawn from: a gray, two saturated colours of equal
\* vibrancy and opposite hue (red, cyan), a dark blue
PalColors == {HexOf(153, 153, 153), HexOf(255, 0, 0), HexOf(0, 255, 255),
              HexOf(0, 0, 102)}

\* two darker cyans: hue 0.5 and saturation 1 like pure cyan, lightness 0.4
\* and 0.3
DarkCyans == {HexOf(0, 204, 204), HexOf(0, 153, 153)}

\* every colour a palette may hold
TableColors == PalColors \cup DarkCyans

GridLevels == {(255 * i) \div GridSteps : i \in 0..GridSteps}
GridColors == {HexOf(c[1], c[2], c[3]) : c \in GridLevels \X GridLevels \X GridLevels}

\* every colour the functions are applied to
InputColors == TableColors \cup GridColors

(***************************************************************************)
(* colorsys.rgb_to_hls and hex_to_hsl                                      *)
(***************************************************************************)
\* colorsys.rgb_to_hls(r, g, b) on channels in [0, 1]; returns <<h, l, s>>.
\* Each local of the function is a parameter of the operator that follows its
\* assignment, so it is computed once.
\* h = bc-gc | 2.0+rc-bc | 4.0+gc-rc; h = (h/6.0) % 1.0
hls_hue(r, g, maxc, rc, gc, bc) ==
    RMod1(RDiv(IF REq(r, maxc) THEN RSub(bc, gc)
               ELSE IF REq(g, maxc) THEN RSub(RAdd(RInt(2), rc), bc)
               ELSE RSub(RAdd(RInt(4), gc), rc),
               RInt(6)))

\* s = rangec / sumc if l <= 0.5 else rangec / (2.0-maxc-minc)
hls_saturation(maxc, minc, sumc, rangec, l) ==
    IF RLe(l, <<1, 2>>)
    THEN RDiv(rangec, sumc)
    ELSE RDiv(rangec, RSub(RSub(RInt(2), maxc), minc))

\* after sumc = maxc+minc, rangec = maxc-minc, l = sumc/2.0
hls_from_range(r, g, b, maxc, minc, sumc, rangec, l) ==
    IF REq(minc, maxc) THEN <<RInt(0), l, RInt(0)>>
    ELSE <<hls_hue(r, g, maxc,
                   RDiv(RSub(maxc, r), rangec),
                   RDiv(RSub(maxc, g), rangec),
                   RDiv(RSub(maxc, b), rangec)),
           l,
           hls_saturation(maxc, minc, sumc, rangec, l)>>

\* after maxc = max(r, g, b), minc = min(r, g, b)
hls_from_extremes(r, g, b, maxc, minc) ==
    hls_from_range(r, g, b, maxc, minc, RAdd(maxc, minc), RSub(maxc, minc),
                   RDiv(RAdd(maxc, minc), RInt(2)))

rgb_to_hls(r, g, b) ==
    hls_from_extremes(r, g, b, RMax(RMax(r, g), b), RMin(RMin(r, g), b))

hex_to_hsl_eval(hex_color) ==
    LET hx == lstrip(hex_color)
        r == int16(SubSeq(hx, 1, 2))
        g == int16(SubSeq(hx, 3, 4))
        b == int16(SubSeq(hx, 5, 6))
    IN  rgb_to_hls(Rat(r, 255), Rat(g, 255), Rat(b, 255))

\* hex_to_hsl, evaluated once per palette colour
HslTable == [c \in TableColors |-> hex_to_hsl_eval(c)] @@ <<>>

hex_to_hsl(hex_color) == HslTable[hex_color]

(***************************************************************************)
(* The palette                                                             *)
(***************************************************************************)
\* f'color{i}' for i in 0..15
ColorKeyTable == [i \in 0..15 |-> "color" \o ToString(i)] @@ <<>>

ColorKey(i) == ColorKeyTable[i]

IndexKeys == {ColorKey(i) : i \in 0..15}
SpecialKeys == {"background", "foreground"}
\* the 18 keys of a complete palette (colors.json: "colors" and "special")
Keys == IndexKeys \cup SpecialKeys

\* outcome of a call: a returned value or a raised exception
Return(v) == [raised |-> "", value |-> v]
Raise(e) == [raised |-> e, value |-> <<>>]

(***************************************************************************)
(* find_most_vibrant_color                                                 *)
(***************************************************************************)
\* vibrancy_score = s * s * (1 - abs(l - 0.45))
vibrancy_score_eval(hex_color) ==
    LET hls == hex_to_hsl(hex_color)
        l == hls[2]
        s == hls[3]
    IN  RMul(RMul(s, s), RSub(RInt(1), RAbs(RSub(l, <<9, 20>>))))

\* vibrancy_score, evaluated once per palette colour
VibrancyTable == [c \in TableColors |-> vibrancy_score_eval(c)] @@ <<>>

vibrancy_score(hex_color) == VibrancyTable[hex_color]

\* variant: color7 is not skipped
vibrant_skip_never(i) == FALSE

\* if i == 7: continue
vibrant_skip(i) == i = 7

\* variant: ">=" in place of ">"
vibrant_better_or_equal(score, max_saturation) == RCmp(score, max_saturation) >= 0

\* if vibrancy_score > max_saturation
vibrant_better(score, max_saturation) == RGt(score, max_saturation)

\* the body of "for i in range(1, 16)" from index i on; st holds the locals
RECURSIVE vibrant_loop(_, _, _)
vibrant_loop(cs, i, st) ==
    IF i >= 16 THEN st
    ELSE IF vibrant_skip(i) THEN vibrant_loop(cs, i + 1, st)
    ELSE
      LET color_key == ColorKey(i)
      IN  IF color_key \in DOMAIN cs
          THEN LET score == vibrancy_score(cs[color_key])
               IN  IF vibrant_better(score, st.max_saturation)
                   THEN vibrant_loop(cs, i + 1,
                          [max_saturation |-> score,
                           most_vibrant_key |-> color_key,
                           most_vibrant_hex |-> cs[color_key]])
                   ELSE vibrant_loop(cs, i + 1, st)
          ELSE vibrant_loop(cs, i + 1, st)

\* variant: any missing candidate key is an error
find_most_vibrant_color_strict(cs) ==
    IF \E i \in (1..15) \ {7} : ColorKey(i) \notin DOMAIN cs THEN Raise("KeyError")
    ELSE
      LET st == vibrant_loop(cs, 1,
                  [max_saturation |-> RInt(0),
                   most_vibrant_key |-> "color1",
                   most_vibrant_hex |-> cs["color1"]])
      IN  Return(<<st.most_vibrant_key, st.most_vibrant_hex>>)

find_most_vibrant_color(cs) ==
    IF "color1" \notin DOMAIN cs THEN Raise("KeyError")
    ELSE
      LET st == vibrant_loop(cs, 1,
                  [max_saturation |-> RInt(0),
                   most_vibrant_key |-> "color1",
                   most_vibrant_hex |-> cs["color1"]])
      IN  Return(<<st.most_vibrant_key, st.most_vibrant_hex>>)

(***************************************************************************)
(* find_best_complement_color                                              *)
(***************************************************************************)
\* hue_diff = abs(h - accent_h); if hue_diff > 0.5: hue_diff = 1.0 - hue_diff
hue_diff(h, accent_h) ==
    LET d == RAbs(RSub(h, accent_h))
    IN  IF RGt(d, <<1, 2>>) THEN RSub(RInt(1), d) ELSE d

\* the score with lightness 0.5 as the preferred lightness
complement_score_eval_mid_lightness(hex_color, accent_h) ==
    LET hls == hex_to_hsl(hex_color)
        h == hls[1]
        l == hls[2]
        s == hls[3]
        complement_distance == RAbs(RSub(hue_diff(h, accent_h), <<1, 2>>))
    IN  RMul(RMul(RSub(RInt(1), RMul(complement_distance, RInt(2))), s),
             RSub(RInt(1), RAbs(RSub(l, <<1, 2>>))))

\* complement_score of a candidate colour against the accent's hue
complement_score_eval(hex_color, accent_h) ==
    LET hls == hex_to_hsl(hex_color)
        h == hls[1]
        l == hls[2]
        s == hls[3]
        complement_distance == RAbs(RSub(hue_diff(h, accent_h), <<1, 2>>))
    IN  RMul(RMul(RSub(RInt(1), RMul(complement_distance, RInt(2))), s),
             RSub(RInt(1), RAbs(RSub(l, <<2, 5>>))))

\* complement_score, evaluated once per palette colour and accent hue
ComplementTable ==
    [x \in TableColors \X {hex_to_hsl(a)[1] : a \in TableColors} |->
        complement_score_eval(x[1], x[2])] @@ <<>>

complement_score(hex_color, accent_h) == ComplementTable[<<hex_color, accent_h>>]

\* if i == 0 or i == 7: continue
complement_skip(i) == i = 0 \/ i = 7

\* variant: the accent key itself stays a candidate
complement_excluded_absent_only(cs, color_key, accent_color_key) ==
    color_key \notin DOMAIN cs

\* if color_key == accent_color_key or color_key not in colors: continue
complement_excluded(cs, color_key, accent_color_key) ==
    color_key = accent_color_key \/ color_key \notin DOMAIN cs

\* variant: ">=" in place of ">"
complement_better_or_equal(score, best_complement_score) ==
    RCmp(score, best_complement_score) >= 0

\* if complement_score > best_complement_score
complement_better(score, best_complement_score) ==
    RGt(score, best_complement_score)

RECURSIVE complement_loop(_, _, _, _, _)
complement_loop(cs, accent_color_key, accent_h, i, st) ==
    IF i >= 16 THEN st
    ELSE IF complement_skip(i)
         THEN complement_loop(cs, accent_color_key, accent_h, i + 1, st)
    ELSE
      LET color_key == ColorKey(i)
      IN  IF complement_excluded(cs, color_key, accent_color_key)
          THEN complement_loop(cs, accent_color_key, accent_h, i + 1, st)
          ELSE LET score == complement_score(cs[color_key], accent_h)
               IN  IF complement_better(score, st.best_complement_score)
                   THEN complement_loop(cs, accent_color_key, accent_h, i + 1,
                          [best_complement_key |-> color_key,
                           best_complement_score |-> score])
                   ELSE complement_loop(cs, accent_color_key, accent_h, i + 1, st)

\* the selection falling back on the accent key itself
find_best_complement_color_accent_fallback(cs, accent_color_key) ==
    IF accent_color_key \notin DOMAIN cs THEN Raise("KeyError")
    ELSE
      LET accent_h == hex_to_hsl(cs[accent_color_key])[1]
          st == complement_loop(cs, accent_color_key, accent_h, 1,
                  [best_complement_key |-> accent_color_key,
                   best_complement_score |-> RInt(-1)])
      IN  Return(st.best_complement_key)

find_best_complement_color(cs, accent_color_key) ==
    IF accent_color_key \notin DOMAIN cs THEN Raise("KeyError")
    ELSE
      LET accent_h == hex_to_hsl(cs[accent_color_key])[1]
          st == complement_loop(cs, accent_color_key, accent_h, 1,
                  [best_complement_key |-> "color2",
                   best_complement_score |-> RInt(-1)])
      IN  Return(st.best_complement_key)

(***************************************************************************)
(* calculate_contrast_ratio                                                *)
(***************************************************************************)
\* fixed-point unit of GammaTable
GammaScale == 100000

\* GammaTable[n + 1] = gamma_correct(n / 255.0) * GammaScale, rounded, where
\* gamma_correct(c) = c / 12.92 if c <= 0.03928 else ((c + 0.055) / 1.055) ** 2.4
GammaTable == <<
         0,     30,     61,     91,    121,    152,    182,    212,
       243,    273,    304,    335,    368,    402,    439,    478,
       518,    561,    605,    651,    700,    750,    802,    857,
       913,    972,   1033,   1096,   1161,   1229,   1298,   1370,
      1444,   1521,   1600,   1681,   1764,   1850,   1938,   2029,
      2122,   2217,   2315,   2416,   2519,   2624,   2732,   2843,
      2956,   3071,   3190,   3310,   3434,   3560,   3689,   3820,
      3955,   4092,   4231,   4374,   4519,   4667,   4817,   4971,
      5127,   5286,   5448,   5613,   5781,   5951,   6125,   6301,
      6480,   6663,   6848,   7036,   7227,   7421,   7619,   7819,
      8022,   8228,   8438,   8650,   8866,   9084,   9306,   9531,
      9759,   9990,  10224,  10462,  10702,  10946,  11193,  11444,
     11697,  11954,  12214,  12477,  12744,  13014,  13287,  13563,
     13843,  14126,  14413,  14703,  14996,  15293,  15593,  15896,
     16203,  16513,  16827,  17144,  17465,  17789,  18116,  18447,
     18782,  19120,  19462,  19807,  20156,  20508,  20864,  21223,
     21586,  21953,  22323,  22697,  23074,  23455,  23840,  24228,
     24620,  25016,  25415,  25818,  26225,  26636,  27050,  27468,
     27889,  28315,  28744,  29177,  29614,  30054,  30499,  30947,
     31399,  31855,  32314,  32778,  33245,  33716,  34191,  34670,
     35153,  35640,  36131,  36625,  37124,  37626,  38133,  38643,
     39157,  39676,  40198,  40724,  41254,  41789,  42327,  42869,
     43415,  43966,  44520,  45079,  45641,  46208,  46778,  47353,
     47932,  48515,  49102,  49693,  50289,  50888,  51492,  52100,
     52712,  53328,  53948,  54572,  55201,  55834,  56471,  57112,
     57758,  58408,  59062,  59720,  60383,  61050,  61721,  62396,
     63076,  63760,  64448,  65141,  65837,  66539,  67244,  67954,
     68669,  69387,  70110,  70838,  71569,  72306,  73046,  73791,
     74540,  75294,  76052,  76815,  77582,  78354,  79130,  79910,
     80695,  81485,  82279,  83077,  83880,  84687,  85499,  86316,
     87137,  87962,  88792,  89627,  90466,  91310,  92158,  93011,
     93869,  94731,  95597,  96469,  97345,  98225,  99110, 100000>>

\* gamma_correct(n / 255.0) for a channel value n in 0..255
gamma_correct(n) == Rat(GammaTable[n + 1], GammaScale)

\* variant: 0.722 typed for the blue weight 0.0722
get_luminance_eval_blue_weight(hex_color) ==
    LET r == int16(SubSeq(hex_color, 2, 3))
        g == int16(SubSeq(hex_color, 4, 5))
        b == int16(SubSeq(hex_color, 6, 7))
    IN  RAdd(RAdd(RMul(Rat(2126, 10000), gamma_correct(r)),
                  RMul(Rat(7152, 10000), gamma_correct(g))),
             RMul(Rat(7220, 10000), gamma_correct(b)))

get_luminance_eval(hex_color) ==
    LET r == int16(SubSeq(hex_color, 2, 3))
        g == int16(SubSeq(hex_color, 4, 5))
        b == int16(SubSeq(hex_color, 6, 7))
    IN  RAdd(RAdd(RMul(Rat(2126, 10000), gamma_correct(r)),
                  RMul(Rat(7152, 10000), gamma_correct(g))),
             RMul(Rat(722, 10000), gamma_correct(b)))

\* get_luminance, evaluated once per input colour
LuminanceTable == [c \in InputColors |-> get_luminance_eval(c)] @@ <<>>

get_luminance(hex_color) == LuminanceTable[hex_color]

\* variant: the luminances are not ordered before dividing
contrast_operands_unordered(lum1, lum2) ==
    <<RAdd(lum1, <<1, 20>>), RAdd(lum2, <<1, 20>>)>>

\* variant: the divisor lacks its 0.05
contrast_operands_no_floor(lum1, lum2) ==
    <<RAdd(RMax(lum1, lum2), <<1, 20>>), RMin(lum1, lum2)>>

\* variant: 0.5 typed for the dividend's 0.05
contrast_operands_half(lum1, lum2) ==
    <<RAdd(RMax(lum1, lum2), <<1, 2>>), RAdd(RMin(lum1, lum2), <<1, 20>>)>>

\* the quotient's two operands: <<lighter + 0.05, darker + 0.05>>
contrast_operands(lum1, lum2) ==
    LET lighter == RMax(lum1, lum2)
        darker == RMin(lum1, lum2)
    IN  <<RAdd(lighter, <<1, 20>>), RAdd(darker, <<1, 20>>)>>

calculate_contrast_ratio(color1_hex, color2_hex) ==
    LET lum1 == get_luminance(color1_hex)
        lum2 == get_luminance(color2_hex)
        q == contrast_operands(lum1, lum2)
    IN  IF q[2][1] = 0 THEN Raise("ZeroDivisionError")
        ELSE Return(RDiv(q[1], q[2]))

(***************************************************************************)
(* get_best_contrast_text_color                                            *)
(***************************************************************************)
\* variant: ">=" in place of ">"
text_choice_or_equal(fg_contrast, bg_contrast) ==
    IF RCmp(fg_contrast, bg_contrast) >= 0 THEN "@foreground" ELSE "@background"

\* '@foreground' if fg_contrast > bg_contrast else '@background'
text_choice(fg_contrast, bg_contrast) ==
    IF RGt(fg_contrast, bg_contrast) THEN "@foreground" ELSE "@background"

get_best_contrast_text_color(bg_color_hex, cs) ==
    IF "foreground" \notin DOMAIN cs \/ "background" \notin DOMAIN cs
    THEN Raise("KeyError")
    ELSE
      LET fg_contrast == calculate_contrast_ratio(cs["foreground"], bg_color_hex)
          bg_contrast == calculate_contrast_ratio(cs["background"], bg_color_hex)
      IN  IF fg_contrast.raised # "" THEN fg_contrast
          ELSE IF bg_contrast.raised # "" THEN bg_contrast
          ELSE Return(text_choice(fg_contrast.value, bg_contrast.value))

(***************************************************************************)
(* Input palettes                                                          *)
(***************************************************************************)
\* marks a key that the palette file does not hold
Absent == <<>>

\* the subsets of S with at most n elements
RECURSIVE SubsetsUpTo(_, _)
SubsetsUpTo(S, n) ==
    IF n = 0 \/ S = {} THEN {{}}
    ELSE LET x == CHOOSE y \in S : TRUE
             rest == S \ {x}
         IN  SubsetsUpTo(rest, n) \cup {T \cup {x} : T \in SubsetsUpTo(rest, n - 1)}

\* the keys whose colour may differ from the base colour, or be missing:
\* the first and last candidates, both fallback keys, a middle candidate,
\* the two skipped indices and the two special keys
OverrideKeys == {"color0", "color1", "color2", "color5", "color7", "color15",
                 "background", "foreground"}

\* the palette that maps every key to base, except the keys of ov
PaletteOf(base, ov) ==
    [k \in Keys \ {j \in DOMAIN ov : ov[j] = Absent} |->
        IF k \in DOMAIN ov THEN ov[k] ELSE base]

\* a complete palette, as load_pywal_colors returns it
DefaultPalette == [k \in Keys |-> HexOf(153, 153, 153)]

(***************************************************************************)
(* State machine: the palette is loaded once; every step is one call       *)
(***************************************************************************)
\* no earlier call is kept
NoCall == <<>>

\* setup_cava.py is not running: no object, no files, no packages
NoSetup ==
    /\ self = <<>>
    /\ fs = <<>>
    /\ packages = {}
    /\ run = <<>>
    /\ before = <<>>

\* the analyzer has loaded cs and has called nothing yet
Loaded(cs) ==
    /\ colors = cs
    /\ op = "none"
    /\ args = <<>>
    /\ result = Return(<<>>)
    /\ earlier = NoCall

Init ==
    /\ \E base \in PalColors :
         \E S \in SubsetsUpTo(OverrideKeys, MaxOverrides) :
           \E ov \in [S -> PalColors \cup {Absent}] :
             Loaded(PaletteOf(base, ov))
    /\ NoSetup

\* one call of each function: what it returns and what it does to the palette
CallFindMostVibrantColor ==
    /\ op' = "find_most_vibrant_color"
    /\ args' = <<>>
    /\ result' = find_most_vibrant_color(colors)
    /\ UNCHANGED colors

\* a selection that takes the accent out of the palette it was given
CallFindBestComplementColorTakingAccent(k) ==
    /\ op' = "find_best_complement_color"
    /\ args' = <<k>>
    /\ result' = find_best_complement_color(colors, k)
    /\ colors' = [j \in DOMAIN colors \ {k} |-> colors[j]]

CallFindBestComplementColor(k) ==
    /\ op' = "find_best_complement_color"
    /\ args' = <<k>>
    /\ result' = find_best_complement_color(colors, k)
    /\ UNCHANGED colors

CallGetBestContrastTextColor(bg) ==
    /\ op' = "get_best_contrast_text_color"
    /\ args' = <<bg>>
    /\ result' = get_best_contrast_text_color(bg, colors)
    /\ UNCHANGED colors

CallCalculateContrastRatio(a, b) ==
    /\ op' = "calculate_contrast_ratio"
    /\ args' = <<a, b>>
    /\ result' = calculate_contrast_ratio(a, b)
    /\ UNCHANGED colors

FindMostVibrantColor ==
    /\ op = "none"
    /\ CallFindMostVibrantColor
    /\ UNCHANGED <<earlier, setupVars>>

FindBestComplementColor ==
    /\ op = "none"
    /\ \E k \in IndexKeys : CallFindBestComplementColor(k)
    /\ UNCHANGED <<earlier, setupVars>>

GetBestContrastTextColor ==
    /\ op = "none"
    /\ \E bg \in PalColors : CallGetBestContrastTextColor(bg)
    /\ UNCHANGED <<earlier, setupVars>>

Next ==
    \/ FindMostVibrantColor
    \/ FindBestComplementColor
    \/ GetBestContrastTextColor

Spec == Init /\ [][Next]_vars

\* calculate_contrast_ratio alone, over every pair of grid colours
InitContrast ==
    /\ Loaded(DefaultPalette)
    /\ NoSetup

CalculateContrastRatio ==
    /\ op = "none"
    /\ \E a \in GridColors, b \in GridColors : CallCalculateContrastRatio(a, b)
    /\ UNCHANGED <<earlier, setupVars>>

NextContrast == CalculateContrastRatio

SpecContrast == InitContrast /\ [][NextContrast]_vars

(***************************************************************************)
(* Sparse palettes: a colors.json that holds only a few of the keys        *)
(***************************************************************************)
InitSparse ==
    /\ \E S \in SubsetsUpTo(OverrideKeys, MaxPresent) :
         \E cs \in [S -> PalColors] : Loaded(cs)
    /\ NoSetup

SpecSparse == InitSparse /\ [][Next]_vars

(***************************************************************************)
(* Red-and-cyan palettes: a pure red at one key, a pure cyan at another,   *)
(* and other colours, darker cyans among them, at the remaining keys       *)
(***************************************************************************)
\* the keys that hold the red, the cyan and the colours that differ from the
\* base colour
ScenarioKeys == {"color1", "color2", "color5", "color8", "color15"}

InitScenario ==
    /\ \E base \in PalColors :
         \E a \in ScenarioKeys :
           \E c \in ScenarioKeys \ {a} :
             \E S \in SubsetsUpTo(ScenarioKeys \ {a, c}, MaxExtra) :
               \E ov \in [S -> TableColors] :
                 Loaded(PaletteOf(base, ov @@ (a :> HexOf(255, 0, 0))
                                            @@ (c :> HexOf(0, 255, 255))))
    /\ NoSetup

NextScenario == FindBestComplementColor

SpecScenario == InitScenario /\ [][NextScenario]_vars

(***************************************************************************)
(* Repeated calls: the four functions called again and again, in any      *)
(* order, on one loaded palette.  earlier keeps one past call (its         *)
(* arguments, its result and the palette it saw), and whether a different  *)
(* call has been made since.                                               *)
(***************************************************************************)
\* the keys given as accent when calls repeat
RepeatKeys == {"color0", "color1", "color2", "color15"}

\* the colours given as arguments when calls repeat
RepeatColors == {HexOf(255, 0, 0), HexOf(0, 0, 102)}

InitRepeat ==
    /\ \E base \in PalColors :
         \E k \in {"color1", "color2"} :
           \E c \in PalColors \cup {Absent} :
             Loaded(PaletteOf(base, k :> c))
    /\ NoSetup

\* the call just made is kept, or compared with the one kept
Remember ==
    \/ /\ earlier = NoCall
       /\ earlier' = [op |-> op', args |-> args', result |-> result',
                      colors |-> colors, interleaved |-> FALSE]
    \/ /\ earlier # NoCall
       /\ earlier' = [earlier EXCEPT !.interleaved =
                         @ \/ op' # earlier.op \/ args' # earlier.args]
    \/ /\ earlier = NoCall
       /\ UNCHANGED earlier

AgainFindMostVibrantColor ==
    /\ CallFindMostVibrantColor
    /\ Remember
    /\ UNCHANGED setupVars

AgainFindBestComplementColor ==
    /\ \E k \in RepeatKeys : CallFindBestComplementColor(k)
    /\ Remember
    /\ UNCHANGED setupVars

AgainGetBestContrastTextColor ==
    /\ \E bg \in RepeatColors : CallGetBestContrastTextColor(bg)
    /\ Remember
    /\ UNCHANGED setupVars

AgainCalculateContrastRatio ==
    /\ \E a \in RepeatColors, b \in RepeatColors : CallCalculateContrastRatio(a, b)
    /\ Remember
    /\ UNCHANGED setupVars

NextRepeat ==
    \/ AgainFindMostVibrantColor
    \/ AgainFindBestComplementColor
    \/ AgainGetBestContrastTextColor
    \/ AgainCalculateContrastRatio

SpecRepeat == InitRepeat /\ [][NextRepeat]_vars

(***************************************************************************)
(* Vocabulary of the properties                                            *)
(***************************************************************************)
\* indices of the chromatic keys: 1..15 without 7
ChromaticIdx == (1..15) \ {7}
ChromaticKeys == {ColorKey(i) : i \in ChromaticIdx}

KeyIndex(k) == CHOOSE i \in 0..15 : ColorKey(i) = k

\* all 18 keys present
Complete == DOMAIN colors = Keys

IsAccentCall == op = "find_most_vibrant_color"
IsComplementCall == op = "find_best_complement_color"
IsTextCall == op = "get_best_contrast_text_color"
IsContrastCall == op = "calculate_contrast_ratio"
Returned == result.raised = ""

\* vibrancy as the specification words it: saturation^2 * (1 - |lightness - 0.45|)
StatedVibrancyTable ==
    [c \in TableColors |->
        LET hls == hex_to_hsl_eval(c)
        IN  RMul(RMul(hls[3], hls[3]),
                 RSub(RInt(1), RAbs(RSub(hls[2], <<45, 100>>))))] @@ <<>>

StatedVibrancy(k) == StatedVibrancyTable[colors[k]]

\* circular distance of two hues on the [0, 1) wheel, in [0, 0.5]
CircularHueDistance(h1, h2) ==
    LET d == RAbs(RSub(h1, h2))
    IN  RMin(d, RSub(RInt(1), d))

\* score as the specification words it:
\* (1 - 2*|hueDiff - 0.5|) * saturation * (1 - |lightness - 0.4|)
StatedScoreTable ==
    [x \in TableColors \X TableColors |->
        LET hls == hex_to_hsl_eval(x[1])
            hueDiff == CircularHueDistance(hls[1], hex_to_hsl_eval(x[2])[1])
        IN  RMul(RMul(RSub(RInt(1), RMul(RInt(2), RAbs(RSub(hueDiff, <<1, 2>>)))),
                      hls[3]),
                 RSub(RInt(1), RAbs(RSub(hls[2], <<4, 10>>))))] @@ <<>>

\* score of the colour at key k against the colour at the accent key
StatedScore(k, accent) == StatedScoreTable[<<colors[k], colors[accent]>>]

\* k is the lowest-indexed key of idx (a set of indices) that maximises f
IsFirstMax(k, idx, f(_)) ==
    /\ KeyIndex(k) \in idx
    /\ \A j \in idx :
         /\ RLe(f(ColorKey(j)), f(k))
         /\ j < KeyIndex(k) => RLt(f(ColorKey(j)), f(k))

(***************************************************************************)
(* C1: on a complete palette find_most_vibrant_color returns one of        *)
(* color1..color6, color8..color15; never color0 or color7.                *)
(***************************************************************************)
C1_AccentIsChromatic ==
    (IsAccentCall /\ Complete) =>
        /\ Returned
        /\ result.value[1] \in ChromaticKeys
        /\ result.value[1] \notin {"color0", "color7"}

\* color7 is strictly more vibrant than every candidate, and is not returned
C1_Witness ==
    /\ IsAccentCall /\ Complete /\ Returned
    /\ RGt(StatedVibrancy("color7"), StatedVibrancy(result.value[1]))

(***************************************************************************)
(* C2: on a complete palette, for every chromatic accent key k,            *)
(* find_best_complement_color(p, k) is not k, not color0 and not color7.   *)
(***************************************************************************)
C2_ComplementAvoidsAccent ==
    (IsComplementCall /\ Complete /\ args[1] \in ChromaticKeys) =>
        /\ Returned
        /\ result.value \notin {args[1], "color0", "color7"}

\* the accent is the first candidate index and color7 would score strictly
\* higher than the key returned
C2_Witness ==
    /\ IsComplementCall /\ Complete /\ Returned
    /\ args[1] = "color1"
    /\ RGt(StatedScore("color7", args[1]), StatedScore(result.value, args[1]))

(***************************************************************************)
(* C3: get_best_contrast_text_color returns the candidate whose contrast   *)
(* ratio against the given background is strictly larger.  As claimed, a   *)
(* tie goes to the foreground candidate (C3_TieToForeground); in the code  *)
(* a tie goes to the background candidate (C3_TieToBackground).            *)
(***************************************************************************)
FgContrast == calculate_contrast_ratio(colors["foreground"], args[1]).value
BgContrast == calculate_contrast_ratio(colors["background"], args[1]).value

C3_TieToForeground ==
    (IsTextCall /\ Returned) =>
        /\ RGt(FgContrast, BgContrast) => result.value = "@foreground"
        /\ RLt(FgContrast, BgContrast) => result.value = "@background"
        /\ REq(FgContrast, BgContrast) => result.value = "@foreground"

C3_TieToBackground ==
    (IsTextCall /\ Returned) =>
        /\ RGt(FgContrast, BgContrast) => result.value = "@foreground"
        /\ RLt(FgContrast, BgContrast) => result.value = "@background"
        /\ REq(FgContrast, BgContrast) => result.value = "@background"

\* both candidates have the same ratio against a background of another colour
C3_Witness ==
    /\ IsTextCall /\ Returned
    /\ REq(FgContrast, BgContrast)
    /\ args[1] # colors["foreground"]
    /\ result.value = "@background"

(***************************************************************************)
(* C4: on a complete palette find_most_vibrant_color returns the candidate *)
(* of maximal vibrancy saturation^2 * (1 - |lightness - 0.45|), the        *)
(* lowest-indexed one among equals, together with that key's colour.       *)
(***************************************************************************)
C4_AccentIsFirstMax ==
    (IsAccentCall /\ Complete) =>
        /\ Returned
        /\ IsFirstMax(result.value[1], ChromaticIdx, StatedVibrancy)
        /\ result.value[2] = colors[result.value[1]]

\* a later candidate of another colour ties with the returned one, and the
\* returned one is not the fallback key
C4_Witness ==
    /\ IsAccentCall /\ Complete /\ Returned
    /\ result.value[1] # "color1"
    /\ \E j \in ChromaticIdx :
         /\ j > KeyIndex(result.value[1])
         /\ colors[ColorKey(j)] # result.value[2]
         /\ REq(StatedVibrancy(ColorKey(j)), StatedVibrancy(result.value[1]))

(***************************************************************************)
(* C5: on a complete palette, for every accent key k,                      *)
(* find_best_complement_color returns the candidate (color1..color15       *)
(* except color7 and k) of maximal score, the lowest-indexed among equals. *)
(***************************************************************************)
ScoreAgainstAccent(k) == StatedScore(k, args[1])

C5_ComplementIsFirstMax ==
    (IsComplementCall /\ Complete) =>
        /\ Returned
        /\ IsFirstMax(result.value, ChromaticIdx \ {KeyIndex(args[1])},
                      ScoreAgainstAccent)

\* a later candidate ties with the returned one at a positive score, and an
\* earlier candidate scores strictly less
C5_Witness ==
    /\ IsComplementCall /\ Complete /\ Returned
    /\ RGt(ScoreAgainstAccent(result.value), RInt(0))
    /\ \E j \in ChromaticIdx \ {KeyIndex(args[1])} :
         /\ j > KeyIndex(result.value)
         /\ REq(ScoreAgainstAccent(ColorKey(j)), ScoreAgainstAccent(result.value))
    /\ \E j \in ChromaticIdx \ {KeyIndex(args[1])} :
         /\ j < KeyIndex(result.value)
         /\ RLt(ScoreAgainstAccent(ColorKey(j)), ScoreAgainstAccent(result.value))

(***************************************************************************)
(* C6: calculate_contrast_ratio is symmetric in its two colours.           *)
(***************************************************************************)
C6_ContrastSymmetric ==
    IsContrastCall => result = calculate_contrast_ratio(args[2], args[1])

\* the first colour is the darker one, and the ratio is not 1
C6_Witness ==
    /\ IsContrastCall /\ Returned
    /\ RLt(get_luminance(args[1]), get_luminance(args[2]))
    /\ RGt(result.value, RInt(1))

(***************************************************************************)
(* C7: the contrast ratio of a colour against itself is exactly 1.         *)
(***************************************************************************)
C7_ContrastWithSelfIsOne ==
    (IsContrastCall /\ args[1] = args[2]) => result = Return(<<1, 1>>)

\* a colour that is neither black nor white, against itself
C7_Witness ==
    /\ IsContrastCall /\ Returned
    /\ args[1] = args[2]
    /\ args[1] \notin {HexOf(0, 0, 0), HexOf(255, 255, 255)}

(***************************************************************************)
(* C8: for all colours the ratio is defined (the divisor is at least       *)
(* 0.05, so no division by zero) and at least 1.                           *)
(***************************************************************************)
C8_ContrastDefinedAtLeastOne ==
    IsContrastCall =>
        /\ Returned
        /\ RLe(<<5, 100>>,
               contrast_operands(get_luminance(args[1]), get_luminance(args[2]))[2])
        /\ RLe(RInt(1), result.value)

\* black, whose luminance is 0, is the darker colour
C8_Witness ==
    /\ IsContrastCall /\ Returned
    /\ args[2] = HexOf(0, 0, 0)
    /\ args[1] # HexOf(0, 0, 0)

(***************************************************************************)
(* C9: the ratio of black against white lies in [20.9, 21.1], and no pair  *)
(* of colours has a larger ratio.                                          *)
(***************************************************************************)
C9_BlackWhiteIsMaximal ==
    (IsContrastCall /\ Returned) =>
        /\ args = <<HexOf(0, 0, 0), HexOf(255, 255, 255)>> =>
             /\ RLe(<<209, 10>>, result.value)
             /\ RLe(result.value, <<211, 10>>)
        /\ RLe(result.value,
               calculate_contrast_ratio(HexOf(0, 0, 0), HexOf(255, 255, 255)).value)

C9_Witness ==
    /\ IsContrastCall /\ Returned
    /\ args = <<HexOf(0, 0, 0), HexOf(255, 255, 255)>>

(***************************************************************************)
(* C10: what the two selectors do on a palette that lacks keys.  As        *)
(* claimed, they signal an error and return no key                         *)
(* (C10_IncompleteIsError).  In the code find_most_vibrant_color raises    *)
(* KeyError exactly when color1 is missing and                             *)
(* find_best_complement_color exactly when the accent key is missing;      *)
(* otherwise each skips the missing keys and returns the first maximal     *)
(* candidate among the keys present, find_best_complement_color returning  *)
(* color2 when no candidate is present (C10_IncompleteIsSkipped).          *)
(***************************************************************************)
PresentIdx == {i \in ChromaticIdx : ColorKey(i) \in DOMAIN colors}

C10_IncompleteIsError ==
    ((IsAccentCall \/ IsComplementCall) /\ ~Complete) => ~Returned

C10_IncompleteIsSkipped ==
    /\ (IsAccentCall /\ ~Complete) =>
         /\ ~Returned <=> "color1" \notin DOMAIN colors
         /\ ~Returned => result = Raise("KeyError")
         /\ Returned =>
              /\ IsFirstMax(result.value[1], PresentIdx, StatedVibrancy)
              /\ result.value[2] = colors[result.value[1]]
    /\ (IsComplementCall /\ ~Complete) =>
         /\ ~Returned <=> args[1] \notin DOMAIN colors
         /\ ~Returned => result = Raise("KeyError")
         /\ Returned =>
              LET cand == PresentIdx \ {KeyIndex(args[1])}
              IN  IF cand = {} THEN result.value = "color2"
                  ELSE IsFirstMax(result.value, cand, ScoreAgainstAccent)

\* color5 is missing and a key after it is returned
C10_Witness ==
    /\ IsAccentCall /\ Returned
    /\ "color5" \notin DOMAIN colors
    /\ KeyIndex(result.value[1]) > 5

NoAccentCandidate == PresentIdx = {}

\* none of color1..color15, color7 and the accent key aside, is present
NoComplementCandidate == PresentIdx \ {KeyIndex(args[1])} = {}

\* C12: when the palette holds no accent candidate, find_most_vibrant_color
\* returns the fallback key color1.
C12_AccentFallsBackOnColor1 ==
    (IsAccentCall /\ NoAccentCandidate) =>
        (Returned /\ result.value[1] = "color1")

\* C13 as stated: when the palette holds no complement candidate,
\* find_best_complement_color returns the fallback key color2.
C13_ComplementFallsBackOnColor2 ==
    (IsComplementCall /\ NoComplementCandidate) => result = Return("color2")

\* C13: when the palette holds no complement candidate,
\* find_best_complement_color returns the fallback key color2 if the accent key
\* is present, and raises KeyError if the accent key is absent.
C13_ComplementFallsBackIfAccentPresent ==
    (IsComplementCall /\ NoComplementCandidate) =>
        IF args[1] \in DOMAIN colors
        THEN result = Return("color2")
        ELSE result = Raise("KeyError")

\* the accent is the only chromatic key present, and color2, which the
\* palette does not hold, is returned
C13_Witness ==
    /\ IsComplementCall
    /\ NoComplementCandidate
    /\ args[1] \in DOMAIN colors
    /\ args[1] \in ChromaticKeys
    /\ "color2" \notin DOMAIN colors
    /\ result = Return("color2")

(***************************************************************************)
(* A red accent and a cyan candidate                                       *)
(***************************************************************************)
PureRed == HexOf(255, 0, 0)
PureCyan == HexOf(0, 255, 255)

\* the candidates of the complement call being made
Candidates == {ColorKey(i) : i \in PresentIdx \ {KeyIndex(args[1])}}

\* the accent key holds pure red and some candidate holds pure cyan
RedAccentCyanCandidate ==
    /\ IsComplementCall
    /\ args[1] \in DOMAIN colors
    /\ colors[args[1]] = PureRed
    /\ \E k \in Candidates : colors[k] = PureCyan

\* the score of pure cyan against a red accent: 9/10
CyanScore == StatedScoreTable[<<PureCyan, PureRed>>]

\* C14 as stated: with a pure red accent and a pure cyan among the
\* candidates, find_best_complement_color returns a key that holds the cyan,
\* whatever the other candidates are.
C14_CyanAlwaysChosen ==
    RedAccentCyanCandidate =>
        (Returned /\ colors[result.value] = PureCyan)

\* C14: with a pure red accent and a pure cyan among the candidates,
\* find_best_complement_color returns the lowest-indexed key that holds the
\* cyan provided no other candidate scores 0.9 or more against the accent; a
\* candidate that scores more than pure cyan's 0.9 is returned instead.
C14_CyanChosenUnlessOutscored ==
    RedAccentCyanCandidate =>
        /\ Returned
        /\ (\A k \in Candidates :
               colors[k] # PureCyan => RLt(ScoreAgainstAccent(k), CyanScore))
           => IsFirstMax(result.value,
                         {KeyIndex(k) : k \in {j \in Candidates : colors[j] = PureCyan}},
                         ScoreAgainstAccent)
        /\ (\E k \in Candidates : RGt(ScoreAgainstAccent(k), CyanScore))
           => /\ colors[result.value] # PureCyan
              /\ RGt(ScoreAgainstAccent(result.value), CyanScore)

\* the cyan is returned although another candidate is neither gray nor red
C14_Witness ==
    /\ RedAccentCyanCandidate
    /\ Returned
    /\ colors[result.value] = PureCyan
    /\ CyanScore = <<9, 10>>
    /\ \E k \in Candidates : colors[k] = HexOf(0, 0, 102)

\* a cyan of lightness 0.4 is returned instead of the pure cyan
C14_WitnessOutscored ==
    /\ RedAccentCyanCandidate
    /\ Returned
    /\ colors[result.value] = HexOf(0, 204, 204)

(***************************************************************************)
(* config/waybar/setup_cava.py: WaybarCavaSetup.run_setup                  *)
(*                                                                         *)
(* Files.  fs maps a path to [exists, text]; the text of a file is a       *)
(* sequence of tokens.  A waybar config is "{", the names of               *)
(* modules-right, "cava{}" when it has a cava section, and "}"; a text     *)
(* without the closing "}" does not parse.                                 *)
(*                                                                         *)
(* Commands.  A query (pacman -Q, which) answers from packages; every      *)
(* other command either succeeds, with its effect, or fails, with none.    *)
(* The file operations inside the try blocks of update_waybar_config and   *)
(* update_waybar_css may raise, which is how these steps return False;     *)
(* those of the other steps and of cleanup_on_failure are taken to         *)
(* succeed.                                                                *)
(***************************************************************************)
WaybarDir == "~/.config/waybar"
WaybarConfig == "~/.config/waybar/config"
WaybarBackup == "~/.config/waybar/config.backup-<date>"
StyleCss == "~/.config/waybar/style.css"
CavaDir == "~/.config/cava"
CavaConfig == "~/.config/cava/config"
\* any other file of the cava directory
CavaOther == "~/.config/cava/<other>"

Paths == {WaybarDir, WaybarConfig, WaybarBackup, StyleCss,
          CavaDir, CavaConfig, CavaOther}

Missing == [exists |-> FALSE, text |-> <<>>]
File(text) == [exists |-> TRUE, text |-> text]
Dir == File(<<"<dir>">>)

\* the value of backup_path before a backup is made
None == "None"

Packages == {"waybar", "waybar-cava", "cava"}

\* the outcome of a step: what it returned and the state it left
Out(ret, slf, f, pk) == [ret |-> ret, self |-> slf, fs |-> f, packages |-> pk]

\* lines 49-59: sudo pacman -S --noconfirm cava
install_cava(slf, f, pk) ==
    {Out(TRUE, slf, f, pk \cup {"cava"}), Out(FALSE, slf, f, pk)}

\* lines 61-79
remove_regular_waybar(slf, f, pk) ==
    IF "waybar" \notin pk
    THEN {Out(TRUE, slf, f, pk)}
    ELSE {Out(TRUE, [slf EXCEPT !.removed_regular_waybar = TRUE], f,
              pk \ {"waybar"}),
          Out(FALSE, slf, f, pk)}

\* lines 81-91: paru -S --noconfirm waybar-cava
install_waybar_cava(slf, f, pk) ==
    {Out(TRUE, slf, f, pk \cup {"waybar-cava"}), Out(FALSE, slf, f, pk)}

\* lines 98-107: waybar-cava, replacing regular waybar
check_waybar_cava(slf, f, pk) ==
    IF "waybar-cava" \in pk
    THEN {Out(TRUE, slf, f, pk)}
    ELSE UNION {IF r.ret
                THEN install_waybar_cava(r.self, r.fs, r.packages)
                ELSE {r} : r \in remove_regular_waybar(slf, f, pk)}

\* lines 93-133
check_dependencies(slf, f, pk) ==
    UNION {IF ~w.ret THEN {w}
           ELSE IF "cava" \in w.packages THEN {w}
           ELSE install_cava(w.self, w.fs, w.packages) :
           w \in check_waybar_cava(slf, f, pk)}

\* the file tracked whether or not the setup created it
created_files_append(created_files, path) == Append(created_files, path)

\* lines 135-186
create_cava_config(slf, f, pk) ==
    {Out(TRUE,
         [slf EXCEPT !.created_files = created_files_append(@, CavaConfig)],
         [f EXCEPT ![CavaDir] = Dir, ![CavaConfig] = File(<<"cava_config">>)],
         pk)}

\* lines 188-200
backup_waybar_config(slf, f, pk) ==
    IF f[WaybarConfig].exists
    THEN {Out(TRUE, [slf EXCEPT !.backup_path = WaybarBackup],
              [f EXCEPT ![WaybarBackup] = f[WaybarConfig]], pk)}
    ELSE {Out(TRUE, slf, f, pk)}

\* json.loads: the modules-right of a config text, or "error"
json_loads(text) ==
    IF Len(text) >= 2 /\ text[1] = "{" /\ text[Len(text)] = "}"
    THEN [ok |-> TRUE,
          modules_right |-> SelectSeq(SubSeq(text, 2, Len(text) - 1),
                                      LAMBDA t : t # "cava{}")]
    ELSE [ok |-> FALSE, modules_right |-> <<>>]

\* json.dump of a config with a cava section
json_dump(modules_right) == <<"{">> \o modules_right \o <<"cava{}", "}">>

\* lines 222-228: cava after pulseaudio, or last
insert_cava(modules_right) ==
    IF \E i \in 1..Len(modules_right) : modules_right[i] = "pulseaudio"
    THEN LET pulse_index == CHOOSE i \in 1..Len(modules_right) :
                               /\ modules_right[i] = "pulseaudio"
                               /\ \A j \in 1..(i - 1) : modules_right[j] # "pulseaudio"
         IN  SubSeq(modules_right, 1, pulse_index) \o <<"cava">>
                 \o SubSeq(modules_right, pulse_index + 1, Len(modules_right))
    ELSE Append(modules_right, "cava")

\* lines 202-253: a missing or unparseable config, or a write that raises,
\* makes the step return False; a write that raises leaves a prefix of the
\* new text behind
update_waybar_config(slf, f, pk) ==
    IF ~f[WaybarConfig].exists THEN {Out(FALSE, slf, f, pk)}
    ELSE LET config == json_loads(f[WaybarConfig].text)
             text == json_dump(insert_cava(config.modules_right))
         IN  IF ~config.ok THEN {Out(FALSE, slf, f, pk)}
             ELSE {Out(TRUE, slf, [f EXCEPT ![WaybarConfig] = File(text)], pk),
                   Out(FALSE, slf, f, pk)}
                  \cup {Out(FALSE, slf,
                            [f EXCEPT ![WaybarConfig] = File(SubSeq(text, 1, n))],
                            pk) : n \in 0..(Len(text) - 1)}

\* lines 255-287: open(css_path, 'a') creates the file when the directory
\* exists; an open or a write that raises makes the step return False
update_waybar_css(slf, f, pk) ==
    IF ~f[WaybarDir].exists THEN {Out(FALSE, slf, f, pk)}
    ELSE {Out(TRUE, slf,
              [f EXCEPT ![StyleCss] = File(f[StyleCss].text \o <<"cava_css">>)],
              pk),
          Out(FALSE, slf, f, pk),
          Out(FALSE, slf,
              [f EXCEPT ![StyleCss] = File(f[StyleCss].text \o <<"cava_">>)],
              pk)}

\* lines 289-307: pkill waybar; sleep 2; waybar &
restart_waybar(slf, f, pk) ==
    {Out(TRUE, slf, f, pk), Out(FALSE, slf, f, pk)}

\* a restore that removes the backup without copying it back
restore_waybar_config_unlink_only(slf, f) ==
    IF slf.backup_path = None \/ ~f[slf.backup_path].exists THEN f
    ELSE [f EXCEPT ![slf.backup_path] = Missing]

\* lines 309-326
restore_waybar_config(slf, f) ==
    IF slf.backup_path = None \/ ~f[slf.backup_path].exists THEN f
    ELSE [f EXCEPT ![WaybarConfig] = f[slf.backup_path],
                   ![slf.backup_path] = Missing]

\* lines 328-352: the packages afterwards, and whether every command issued
\* succeeded
restore_packages_on_failure(slf, pk) ==
    IF ~slf.removed_regular_waybar
    THEN {[packages |-> pk, commands_ok |-> TRUE]}
    ELSE LET removed ==
               IF "waybar-cava" \in pk
               THEN {[packages |-> pk \ {"waybar-cava"}, commands_ok |-> TRUE],
                     [packages |-> pk, commands_ok |-> FALSE]}
               ELSE {[packages |-> pk, commands_ok |-> TRUE]}
         IN  UNION {{[packages |-> r.packages \cup {"waybar"},
                      commands_ok |-> r.commands_ok],
                     [packages |-> r.packages, commands_ok |-> FALSE]} :
                    r \in removed}

\* lines 365-371: every tracked file is removed
RECURSIVE remove_created_files(_, _)
remove_created_files(created_files, f) ==
    IF created_files = <<>> THEN f
    ELSE remove_created_files(Tail(created_files),
                              [f EXCEPT ![Head(created_files)] = Missing])

\* lines 373-379: the cava directory is removed when it is empty
remove_empty_cava_dir(f) ==
    IF f[CavaDir].exists /\ ~f[CavaConfig].exists /\ ~f[CavaOther].exists
    THEN [f EXCEPT ![CavaDir] = Missing]
    ELSE f

\* lines 354-379
cleanup_on_failure(slf, f, pk) ==
    {[fs |-> remove_empty_cava_dir(
                remove_created_files(slf.created_files,
                                     restore_waybar_config(slf, f))),
      packages |-> r.packages,
      commands_ok |-> r.commands_ok] :
     r \in restore_packages_on_failure(slf, pk)}

\* lines 385-392
steps == <<"check_dependencies", "create_cava_config", "backup_waybar_config",
           "update_waybar_config", "update_waybar_css", "restart_waybar">>

\* a loop that goes on to the next step whatever the step returned
after_step_no_return(r, ret) ==
    [r EXCEPT !.ran = Append(@, [step |-> steps[r.step], ret |-> ret]),
              !.pc = IF r.step = Len(steps) THEN "returned" ELSE "step",
              !.step = IF r.step < Len(steps) THEN @ + 1 ELSE @,
              !.ret = IF r.step = Len(steps) THEN "True" ELSE @]

\* lines 394-403: where run_setup goes after a step returned ret
after_step(r, ret) ==
    [r EXCEPT !.ran = Append(@, [step |-> steps[r.step], ret |-> ret]),
              !.pc = IF ~ret THEN "cleanup"
                     ELSE IF r.step = Len(steps) THEN "returned" ELSE "step",
              !.step = IF ret /\ r.step < Len(steps) THEN @ + 1 ELSE @,
              !.ret = IF ret /\ r.step = Len(steps) THEN "True" ELSE @]

\* the files a run may find: a directory exists when a file of it does
FilesOf(wd, wc, css, cd, cc, co) ==
    [p \in Paths |->
        CASE p = WaybarDir -> wd
          [] p = WaybarConfig -> wc
          [] p = WaybarBackup -> Missing
          [] p = StyleCss -> css
          [] p = CavaDir -> cd
          [] p = CavaConfig -> cc
          [] p = CavaOther -> co]

InitFiles ==
    {FilesOf(x[1], x[2], x[3], x[4], x[5], x[6]) :
        x \in {y \in {Missing, Dir}
                   \X {Missing, File(<<"{", "pulseaudio", "clock", "}">>),
                       File(<<"{", "clock", "}">>), File(<<"{", "clock">>)}
                   \X {Missing, File(<<"css">>)}
                   \X {Missing, Dir}
                   \X {Missing, File(<<"old_cava_config">>)}
                   \X {Missing, File(<<"other">>)} :
                /\ (y[2].exists \/ y[3].exists) => y[1].exists
                /\ (y[5].exists \/ y[6].exists) => y[4].exists}}

\* lines 17-23 and 406: the object as constructed, on a machine where waybar
\* and waybar-cava, which conflict, are not both installed
InitSetup ==
    /\ Loaded(<<>>)
    /\ self = [created_files |-> <<>>, backup_path |-> None,
               removed_regular_waybar |-> FALSE]
    /\ fs \in InitFiles
    /\ packages \in {pk \in SUBSET Packages : ~({"waybar", "waybar-cava"} \subseteq pk)}
    /\ run = [pc |-> "step", step |-> 1, ran |-> <<>>, cleanups |-> 0,
              ret |-> "none", commands_ok |-> TRUE]
    /\ before = [fs |-> fs, packages |-> packages]

\* lines 394-397: run_setup is about to call the step called name
At(name) ==
    /\ run.pc = "step"
    /\ steps[run.step] = name

\* the step leaves the state of outcome o, and its result is tested
Taken(o) ==
    /\ self' = o.self
    /\ fs' = o.fs
    /\ packages' = o.packages
    /\ run' = after_step(run, o.ret)

CheckDependencies ==
    /\ At("check_dependencies")
    /\ \E o \in check_dependencies(self, fs, packages) : Taken(o)
    /\ UNCHANGED <<analyzerVars, before>>

CreateCavaConfig ==
    /\ At("create_cava_config")
    /\ \E o \in create_cava_config(self, fs, packages) : Taken(o)
    /\ UNCHANGED <<analyzerVars, before>>

BackupWaybarConfig ==
    /\ At("backup_waybar_config")
    /\ \E o \in backup_waybar_config(self, fs, packages) : Taken(o)
    /\ UNCHANGED <<analyzerVars, before>>

UpdateWaybarConfig ==
    /\ At("update_waybar_config")
    /\ \E o \in update_waybar_config(self, fs, packages) : Taken(o)
    /\ UNCHANGED <<analyzerVars, before>>

UpdateWaybarCss ==
    /\ At("update_waybar_css")
    /\ \E o \in update_waybar_css(self, fs, packages) : Taken(o)
    /\ UNCHANGED <<analyzerVars, before>>

RestartWaybar ==
    /\ At("restart_waybar")
    /\ \E o \in restart_waybar(self, fs, packages) : Taken(o)
    /\ UNCHANGED <<analyzerVars, before>>

\* lines 398-399: cleanup_on_failure(), then return False
CleanupOnFailure ==
    /\ run.pc = "cleanup"
    /\ \E c \in cleanup_on_failure(self, fs, packages) :
         /\ fs' = c.fs
         /\ packages' = c.packages
         /\ run' = [run EXCEPT !.pc = "returned", !.ret = "False",
                               !.cleanups = @ + 1,
                               !.commands_ok = c.commands_ok]
    /\ UNCHANGED <<analyzerVars, self, before>>

NextSetup ==
    \/ CheckDependencies
    \/ CreateCavaConfig
    \/ BackupWaybarConfig
    \/ UpdateWaybarConfig
    \/ UpdateWaybarCss
    \/ RestartWaybar
    \/ CleanupOnFailure

SpecSetup == InitSetup /\ [][NextSetup]_vars

(***************************************************************************)
(* Properties of run_setup                                                 *)
(***************************************************************************)
ReturnedTrue == run.pc = "returned" /\ run.ret = "True"
ReturnedFalse == run.pc = "returned" /\ run.ret = "False"

\* the step that ran last
LastStep == run.ran[Len(run.ran)].step

\* C15: the steps run in the fixed order check_dependencies,
\* create_cava_config, backup_waybar_config, update_waybar_config,
\* update_waybar_css, restart_waybar; a step runs only if every earlier step
\* returned True; after the first step that returns False no step runs,
\* cleanup_on_failure runs exactly once and run_setup returns False; when all
\* steps return True cleanup_on_failure never runs and run_setup returns True.
C15_StepsInOrderUntilFailure ==
    /\ Len(run.ran) <= Len(steps)
    /\ \A i \in 1..Len(run.ran) : run.ran[i].step = steps[i]
    /\ \A i \in 1..(Len(run.ran) - 1) : run.ran[i].ret
    /\ (\A i \in 1..Len(run.ran) : run.ran[i].ret) =>
         /\ run.cleanups = 0
         /\ run.ret # "False"
         /\ run.pc = "returned" <=> Len(run.ran) = Len(steps)
         /\ run.pc = "returned" => run.ret = "True"
    /\ (\E i \in 1..Len(run.ran) : ~run.ran[i].ret) =>
         /\ run.pc \in {"cleanup", "returned"}
         /\ run.ret # "True"
         /\ run.pc = "cleanup" => (run.cleanups = 0 /\ run.ret = "none")
         /\ run.pc = "returned" => (run.cleanups = 1 /\ run.ret = "False")

\* update_waybar_css is the first step to return False: restart_waybar did
\* not run, cleanup ran once and run_setup returned False
C15_Witness ==
    /\ ReturnedFalse
    /\ Len(run.ran) = 5
    /\ LastStep = "update_waybar_css"
    /\ run.cleanups = 1

C17_ExistingCavaConfigKept ==
    (ReturnedFalse /\ before.fs[CavaConfig].exists) => fs[CavaConfig].exists

\* C18: if run_setup returns False and every package command issued during
\* cleanup succeeded, the installed packages are those installed before the
\* run.
C18_PackagesRestored ==
    (ReturnedFalse /\ run.commands_ok) => packages = before.packages

\* C19: when run_setup returns False, style.css has the content it had before
\* the run, whichever step failed.
C19_StyleCssRestored ==
    ReturnedFalse => fs[StyleCss] = before.fs[StyleCss]

(***************************************************************************)
(* scripts/phase_2_hardware.py save_config and scripts/phase_3_packages.py *)
(* load_hardware_config: the hardware record written to and read from      *)
(* /tmp/agnosis-hardware.conf.  A string is the sequence of its            *)
(* one-character strings.                                                  *)
(***************************************************************************)
\* at most this many characters in a value of a hardware record
MaxValueLen == 2

HardwareConf == "/tmp/agnosis-hardware.conf"

\* the keys of a hardware record, in the order detect_hardware inserts them
HardwareKeys == <<"cpu_vendor", "gpu_type", "platform", "vendor">>

KeyChars ==
    [cpu_vendor |-> <<"c", "p", "u", "_", "v", "e", "n", "d", "o", "r">>,
     gpu_type |-> <<"g", "p", "u", "_", "t", "y", "p", "e">>,
     platform |-> <<"p", "l", "a", "t", "f", "o", "r", "m">>,
     vendor |-> <<"v", "e", "n", "d", "o", "r">>]

\* phase_3_packages.py line 16 (and phase_2_hardware.py lines 16, 65)
DefaultHardware ==
    [cpu_vendor |-> <<"u", "n", "k", "n", "o", "w", "n">>,
     gpu_type |-> <<"u", "n", "k", "n", "o", "w", "n">>,
     platform |-> <<"d", "e", "s", "k", "t", "o", "p">>,
     vendor |-> <<"g", "e", "n", "e", "r", "i", "c">>]

LowerLetters == 
    <<"a", "b", "c", "d", "e", "f", "g", "h", "i", "j", "k", "l",
      "m", "n", "o", "p", "q", "r", "s", "t", "u", "v", "w", "x",
      "y", "z">>
UpperLetters == 
    <<"A", "B", "C", "D", "E", "F", "G", "H", "I", "J", "K", "L",
      "M", "N", "O", "P", "Q", "R", "S", "T", "U", "V", "W", "X",
      "Y", "Z">>

LetterIndex(letters, c) == CHOOSE i \in 1..Len(letters) : letters[i] = c

\* str.upper
upper(str) ==
    [i \in 1..Len(str) |->
        IF \E j \in 1..Len(LowerLetters) : LowerLetters[j] = str[i]
        THEN UpperLetters[LetterIndex(LowerLetters, str[i])]
        ELSE str[i]]

\* str.lower
lower(str) ==
    [i \in 1..Len(str) |->
        IF \E j \in 1..Len(UpperLetters) : UpperLetters[j] = str[i]
        THEN LowerLetters[LetterIndex(UpperLetters, str[i])]
        ELSE str[i]]

\* the characters str.strip removes, among those of the values
Whitespace == {" ", "\n", "\r"}

\* str.strip
RECURSIVE lstrip_whitespace(_)
lstrip_whitespace(str) ==
    IF str # <<>> /\ Head(str) \in Whitespace
    THEN lstrip_whitespace(Tail(str))
    ELSE str

RECURSIVE rstrip_whitespace(_)
rstrip_whitespace(str) ==
    IF str # <<>> /\ str[Len(str)] \in Whitespace
    THEN rstrip_whitespace(SubSeq(str, 1, Len(str) - 1))
    ELSE str

strip(str) == rstrip_whitespace(lstrip_whitespace(str))

\* sep in str, for a one-character sep
contains(str, sep) == \E i \in 1..Len(str) : str[i] = sep

\* the index of the first sep of str
find(str, sep) ==
    CHOOSE i \in 1..Len(str) :
        /\ str[i] = sep
        /\ \A j \in 1..(i - 1) : str[j] # sep

\* str.split(sep): every piece between two seps
RECURSIVE split(_, _)
split(str, sep) ==
    IF ~contains(str, sep) THEN <<str>>
    ELSE <<SubSeq(str, 1, find(str, sep) - 1)>>
             \o split(SubSeq(str, find(str, sep) + 1, Len(str)), sep)

\* a split at every sep, keeping the first two pieces
split_at_every(str, sep) == SubSeq(split(str, sep), 1, 2)

\* str.split(sep, 1) of a str that contains sep: the pieces before and after
\* the first sep
split_once(str, sep) ==
    <<SubSeq(str, 1, find(str, sep) - 1),
      SubSeq(str, find(str, sep) + 1, Len(str))>>

\* sep.join(strs)
RECURSIVE join(_, _)
join(sep, strs) ==
    IF strs = <<>> THEN <<>>
    ELSE IF Len(strs) = 1 THEN strs[1]
    ELSE strs[1] \o <<sep>> \o join(sep, Tail(strs))

\* Path.read_text: text mode with universal newlines, "\r\n" and "\r" are
\* read as "\n"
RECURSIVE read_text(_)
read_text(text) ==
    IF text = <<>> THEN <<>>
    ELSE IF Head(text) = "\r"
         THEN <<"\n">> \o
              read_text(IF Len(text) >= 2 /\ text[2] = "\n"
                        THEN SubSeq(text, 3, Len(text))
                        ELSE Tail(text))
    ELSE <<Head(text)>> \o read_text(Tail(text))

\* phase_2_hardware.py line 52: one KEY=value line per key
config_text(hardware) ==
    join("\n", [i \in 1..Len(HardwareKeys) |->
                   upper(KeyChars[HardwareKeys[i]]) \o <<"=">>
                       \o hardware[HardwareKeys[i]]])

\* phase_2_hardware.py lines 50-54: the files after save_config(hardware)
save_config(hardware, f) ==
    [f EXCEPT ![HardwareConf] = File(config_text(hardware))]

\* phase_3_packages.py lines 21-24: config after one line of the file
load_line(config, line) ==
    IF ~contains(line, "=") THEN config
    ELSE LET kv == split_once(strip(line), "=")
             key == lower(kv[1])
         IN  IF \E k \in DOMAIN config : KeyChars[k] = key
             THEN [config EXCEPT
                     ![CHOOSE k \in DOMAIN config : KeyChars[k] = key] = kv[2]]
             ELSE config

\* phase_3_packages.py line 20: the loop over the lines
RECURSIVE load_lines(_, _)
load_lines(config, lines) ==
    IF lines = <<>> THEN config
    ELSE load_lines(load_line(config, Head(lines)), Tail(lines))

\* phase_3_packages.py lines 14-25
load_hardware_config(f) ==
    IF f[HardwareConf].exists
    THEN load_lines(DefaultHardware, split(read_text(f[HardwareConf].text), "\n"))
    ELSE DefaultHardware

\* the characters of the values
ValueChars == {"a", "=", " ", "\n", "\r"}

\* every string of at most n characters
RECURSIVE StringsUpTo(_)
StringsUpTo(n) ==
    IF n = 0 THEN {<<>>}
    ELSE StringsUpTo(n - 1)
         \cup {Append(str, c) : str \in {t \in StringsUpTo(n - 1) : Len(t) = n - 1},
                                c \in ValueChars}

\* the pairs of keys whose values differ from the defaults
VariedKeys == {<<"cpu_vendor", "gpu_type">>, <<"platform", "vendor">>}

\* phase 2 has not run: the scratch file does not exist
InitHardware ==
    /\ Loaded(<<>>)
    /\ self = <<>>
    /\ fs = [p \in {HardwareConf} |-> Missing]
    /\ packages = {}
    /\ run = <<>>
    /\ before = <<>>

\* phase 2: main calls save_config once
SaveConfig ==
    /\ op = "none"
    /\ \E ks \in VariedKeys :
         \E v1 \in StringsUpTo(MaxValueLen), v2 \in StringsUpTo(MaxValueLen) :
           LET hardware == [DefaultHardware EXCEPT ![ks[1]] = v1, ![ks[2]] = v2]
           IN  /\ fs' = save_config(hardware, fs)
               /\ op' = "save_config"
               /\ args' = <<hardware>>
               /\ result' = Return(<<>>)
               /\ earlier' = [op |-> "save_config", args |-> <<hardware>>]
    /\ UNCHANGED <<colors, self, packages, run, before>>

\* phase 3: main calls load_hardware_config once, after phase 2 or without it
LoadHardwareConfig ==
    /\ op # "load_hardware_config"
    /\ op' = "load_hardware_config"
    /\ args' = <<>>
    /\ result' = Return(load_hardware_config(fs))
    /\ UNCHANGED <<colors, earlier, setupVars>>

NextHardware ==
    \/ SaveConfig
    \/ LoadHardwareConfig

SpecHardware == InitHardware /\ [][NextHardware]_vars

(***************************************************************************)
(* The hardware record across phases                                       *)
(***************************************************************************)
\* the value has no newline character: no line feed and no carriage return,
\* which read_text reads as a line feed
NoNewline(str) == \A i \in 1..Len(str) : str[i] \notin {"\n", "\r"}

\* the value has no leading and no trailing whitespace
NoOuterWhitespace(str) == strip(str) = str

Saved == earlier.args[1]

C20_WitnessDefaults ==
    /\ op = "load_hardware_config"
    /\ ~fs[HardwareConf].exists
    /\ result = Return(DefaultHardware)

====
